---- MODULE Spec2Model ----
(***************************************************************************)
(* audioFlux python bindings: ST (st.py), FST (fst.py) and PWT (pwt.py).   *)
(*                                                                         *)
(* One instance is followed from the constructor call to its destruction.  *)
(* The state is the instance's attributes (self), the constructor's        *)
(* arguments (args), the native object behind the opaque handle (native),  *)
(* and the outcome of the last method call (ret).                          *)
(*                                                                         *)
(* Numbers.  Index and length values are integers.  Frequencies of PWT are *)
(* integers counted in units of 1/FreUnit Hz.  Quotients (the frequency    *)
(* bands of ST/FST, the time axis) are exact fractions <<n, d>> with d > 0;*)
(* float32 rounding is not modelled.                                       *)
(***************************************************************************)
EXTENDS Integers, Sequences, FiniteSets, TLC

VARIABLES pc, cls, args, self, is_created, native, ret

vars == <<pc, cls, args, self, is_created, native, ret>>

(***************************************************************************)
(* Bounds of the model.                                                    *)
(***************************************************************************)
MaxRadix2Exp == 4
MaxBins == 2

(***************************************************************************)
(* Optional values: None is the empty tuple, Some(v) the 1-tuple.          *)
(***************************************************************************)
None == <<>>
Some(v) == <<v>>
IsNone(o) == o = <<>>
Val(o) == o[1]

(* An argument of a call: left out by the caller, or given (None allowed). *)
Omitted == [given |-> FALSE, v |-> None]
Given(o) == [given |-> TRUE, v |-> o]
Param(a, default) == IF a.given THEN a.v ELSE default

(***************************************************************************)
(* Exact fractions.                                                        *)
(***************************************************************************)
Div(n, d) == IF d < 0 THEN <<-n, -d>> ELSE <<n, d>>
FracLt(a, b) == a[1] * b[2] < b[1] * a[2]
FracLe(a, b) == a[1] * b[2] <= b[1] * a[2]

RECURSIVE Pow2(_)
Pow2(n) == IF n <= 0 THEN 1 ELSE 2 * Pow2(n - 1)

(* Python's  1 << n : an int for n >= 0, ValueError for n < 0.             *)
ShiftRaises(radix2_exp) == radix2_exp < 0
Shl1(radix2_exp) == Pow2(radix2_exp)

(* np.arange(start, stop) *)
ARange(start, stop) ==
    [i \in 1..(IF stop > start THEN stop - start ELSE 0) |-> start + i - 1]

(* np.insert(arr, 0, v) *)
Insert0(arr, v) == <<v>> \o arr

(* np.linspace(0, stop, n) for n >= 2: n - 1 equal steps, the last entry   *)
(* set to stop itself.                                                     *)
Linspace0(stop, n) ==
    [i \in 1..n |->
        IF i = n THEN stop
        ELSE <<(i - 1) * stop[1], stop[2] * (n - 1)>>]

(***************************************************************************)
(* Outcome of a constructor: ok, or the check that raised.                 *)
(***************************************************************************)
Raise(what) == [ok |-> FALSE, err |-> what, self |-> [none |-> TRUE]]
Built(s) == [ok |-> TRUE, err |-> "", self |-> s]

(***************************************************************************)
(* ST.__init__  (st.py 103-137)                                            *)
(***************************************************************************)
(* Mutant: the bound of FST's docstring, max_index = fft_length/2 let in.   *)
ST_IndexRangeBad_Mut(max_index, fft_length) == 2 * max_index > fft_length

ST_IndexRangeBad(max_index, fft_length) == 2 * max_index >= fft_length

ST_init(a) ==
    IF ShiftRaises(a.radix2_exp) THEN Raise("radix2_exp")
    ELSE
      LET fft_length == Shl1(a.radix2_exp)
          max_index == IF IsNone(a.max_index) THEN (fft_length \div 2) - 1
                       ELSE Val(a.max_index)
      IN  IF a.min_index < 1 THEN Raise("min_index")
          ELSE IF ST_IndexRangeBad(max_index, fft_length) THEN Raise("max_index")
          ELSE IF a.min_index >= max_index THEN Raise("min_max")
          ELSE Built([radix2_exp |-> a.radix2_exp,
                      samplate   |-> a.samplate,
                      min_index  |-> a.min_index,
                      max_index  |-> max_index,
                      factor     |-> a.factor,
                      norm       |-> a.norm,
                      fft_length |-> fft_length,
                      num        |-> max_index - a.min_index + 1])

(***************************************************************************)
(* FST.__init__  (fst.py 97-124)                                           *)
(***************************************************************************)
FST_IndexRangeBad(max_index, fft_length) == 2 * max_index >= fft_length

FST_init(a) ==
    IF ShiftRaises(a.radix2_exp) THEN Raise("radix2_exp")
    ELSE
      LET fft_length == Shl1(a.radix2_exp)
          max_index == IF IsNone(a.max_index) THEN (fft_length \div 2) - 1
                       ELSE Val(a.max_index)
      IN  IF a.min_index < 1 THEN Raise("min_index")
          ELSE IF FST_IndexRangeBad(max_index, fft_length) THEN Raise("max_index")
          ELSE IF a.min_index >= max_index THEN Raise("min_max")
          ELSE Built([radix2_exp |-> a.radix2_exp,
                      min_index  |-> a.min_index,
                      max_index  |-> max_index,
                      samplate   |-> a.samplate,
                      fft_length |-> fft_length,
                      num        |-> max_index - a.min_index + 1])

(***************************************************************************)
(* PWT.__init__  (pwt.py 131-191)                                          *)
(***************************************************************************)
FreUnit == 10 * 10 * 10 * 10
Hz(x) == x * FreUnit

ScaleTypes == {"LINEAR", "LINSPACE", "MEL", "BARK", "ERB", "LOG", "OCTAVE"}
OctaveOrLog(scale_type) == scale_type \in {"OCTAVE", "LOG"}

(* utils.note_to_hz('C1') = 32.7032 Hz, and Python's round(x, 3).          *)
NoteToHz_C1 == 327032
Round3(x) == ((x + 5) \div 10) * 10

(* The defaults of the signature, line 131-136.                            *)
PWT_default_low_fre == Some(0)
PWT_default_high_fre == Some(Hz(16000))
PWT_default_scale_type == Some("OCTAVE")

(* Mutant: the comparison against the unrounded note frequency.            *)
PWT_LowFreTooLow_NoRound(scale_type, low_fre) ==
    OctaveOrLog(scale_type) /\ low_fre < NoteToHz_C1

PWT_LowFreTooLow(scale_type, low_fre) ==
    OctaveOrLog(scale_type) /\ low_fre < Round3(NoteToHz_C1)

PWT_LowFreNegative(low_fre) == low_fre < 0

PWT_BpoBad(scale_type, bin_per_octave) ==
    scale_type = "OCTAVE" /\ bin_per_octave < 1

PWT_init(a) ==
    LET scale_type == Val(Param(a.scale_type, PWT_default_scale_type))
        low0  == Param(a.low_fre, PWT_default_low_fre)
        high0 == Param(a.high_fre, PWT_default_high_fre)
        low_fre  == IF IsNone(low0)
                    THEN (IF OctaveOrLog(scale_type) THEN NoteToHz_C1 ELSE 0)
                    ELSE Val(low0)
        high_fre == IF IsNone(high0) THEN (a.samplate * FreUnit) \div 2
                    ELSE Val(high0)
    IN  IF PWT_BpoBad(scale_type, a.bin_per_octave) THEN Raise("bin_per_octave")
        ELSE IF PWT_LowFreTooLow(scale_type, low_fre) THEN Raise("low_fre_c1")
        ELSE IF PWT_LowFreNegative(low_fre) THEN Raise("low_fre_neg")
        ELSE IF ShiftRaises(a.radix2_exp) THEN Raise("radix2_exp")
        ELSE Built([num            |-> a.num,
                    radix2_exp     |-> a.radix2_exp,
                    samplate       |-> a.samplate,
                    low_fre        |-> low_fre,
                    high_fre       |-> high_fre,
                    bin_per_octave |-> a.bin_per_octave,
                    scale_type     |-> scale_type,
                    fft_length     |-> Shl1(a.radix2_exp)])

(***************************************************************************)
(* The native object behind self._obj.  stObj_new keeps factor and norm,   *)
(* stObj_useBinArr the bins (by their count), stObj_setValue replaces      *)
(* factor and norm, pwtObj_enableDet the flag.  pwtObj_new computes the    *)
(* frequency bands: num frequencies "starting at low_fre" (pwt.py 22-23),  *)
(* strictly increasing; freBase is the first of them.                      *)
(***************************************************************************)
NoNative == [newCalls |-> 0, freeCalls |-> 0, factor |-> None, norm |-> None,
             bins |-> None, det |-> FALSE, freBase |-> None]

stObj_new(s) == [NoNative EXCEPT !.newCalls = 1,
                                 !.factor = Some(s.factor),
                                 !.norm = Some(s.norm)]

(* Rows of the Gaussian window bank the native object holds: the           *)
(* max_index - min_index + 1 rows stObj_new builds, or one row per bin     *)
(* after stObj_useBinArr replaced the bank.                                *)
stObj_bankRows(nat, s) ==
    IF IsNone(nat.bins) THEN s.max_index - s.min_index + 1 ELSE Val(nat.bins)

(* stObj_setValue(obj, factor, norm) *)
stObj_setValue(nat, factor, norm) ==
    [nat EXCEPT !.factor = Some(factor), !.norm = Some(norm)]

fstObj_new(s) == [NoNative EXCEPT !.newCalls = 1]

pwtObj_new(s) == [NoNative EXCEPT !.newCalls = 1, !.freBase = Some(s.low_fre)]

pwtObj_getFreBandArr(nat, num) ==
    [i \in 1..num |-> <<Val(nat.freBase) + (i - 1) * FreUnit, FreUnit>>]

(***************************************************************************)
(* Outcome of a method call.                                               *)
(***************************************************************************)
Returns(v) == [raised |-> FALSE, value |-> v]
Raises == [raised |-> TRUE, value |-> <<>>]

(* st.py 174-182, 215-236 *)
ST_get_fre_band_arr(s) ==
    LET idx == ARange(s.min_index, s.max_index + 1)
    IN  Returns([i \in DOMAIN idx |-> Div(idx[i] * s.samplate, s.fft_length)])

ST_y_coords(s) ==
    LET fre_band_arr == ST_get_fre_band_arr(s).value
    IN  IF Len(fre_band_arr) = 0 THEN Raises
        ELSE Returns(Insert0(fre_band_arr, fre_band_arr[1]))

ST_x_coords(s) ==
    IF s.samplate = 0 THEN Raises
    ELSE Returns(Linspace0(Div(s.fft_length, s.samplate), s.fft_length + 1))

(* fst.py 126-135, 171-192 *)
FST_get_fre_band_arr(s) ==
    LET idx == ARange(s.min_index, s.max_index + 1)
    IN  Returns([i \in DOMAIN idx |-> Div(idx[i] * s.samplate, s.fft_length)])

FST_y_coords(s) ==
    LET fre_band_arr == FST_get_fre_band_arr(s).value
    IN  IF Len(fre_band_arr) = 0 THEN Raises
        ELSE Returns(Insert0(fre_band_arr, fre_band_arr[1]))

FST_x_coords(s) ==
    IF s.samplate = 0 THEN Raises
    ELSE Returns(Linspace0(Div(s.fft_length, s.samplate), s.fft_length + 1))

(* pwt.py 193-208, 307-328.  (c_float * num) raises for num < 0.           *)
PWT_get_fre_band_arr(s, nat) ==
    IF s.num < 0 THEN Raises
    ELSE Returns(pwtObj_getFreBandArr(nat, s.num))

PWT_y_coords(s, nat) ==
    LET r == PWT_get_fre_band_arr(s, nat)
    IN  IF r.raised THEN Raises
        ELSE Returns(Insert0(r.value, <<s.low_fre, FreUnit>>))

PWT_x_coords(s) ==
    IF s.samplate = 0 THEN Raises
    ELSE Returns(Linspace0(Div(s.fft_length, s.samplate), s.fft_length + 1))

(***************************************************************************)
(* The transforms.  A signal is given by its number of dimensions and the  *)
(* length of its last axis.  utils.check_audio raises unless the array is  *)
(* one-dimensional; utils.check_audio_length raises unless it holds        *)
(* exactly fft_length samples.                                             *)
(***************************************************************************)
check_audio_raises(sig) == sig.ndim # 1
check_audio_length_raises(sig, radix2_exp) == sig.len # Shl1(radix2_exp)

Rejected == [raised |-> TRUE, allocated |-> FALSE, nativeCalled |-> FALSE,
             value |-> <<>>]
Transformed(num, fft_length) ==
    [raised |-> FALSE, allocated |-> TRUE, nativeCalled |-> TRUE,
     value |-> <<num, fft_length>>]

(* np.zeros((num, fft_length)) raises for a negative dimension.            *)
ZerosRaises(num) == num < 0

(* Mutant: the planes allocated and the native transform run before the    *)
(* checks of the signal.                                                   *)
ST_st_NativeFirst(s, sig) ==
    IF check_audio_raises(sig) \/ check_audio_length_raises(sig, s.radix2_exp)
    THEN [raised |-> TRUE, allocated |-> TRUE, nativeCalled |-> TRUE,
          value |-> <<>>]
    ELSE Transformed(s.num, s.fft_length)

(* st.py 184-213 *)
ST_st(s, sig) ==
    IF check_audio_raises(sig) THEN Rejected
    ELSE IF check_audio_length_raises(sig, s.radix2_exp) THEN Rejected
    ELSE IF ZerosRaises(s.num) THEN Rejected
    ELSE Transformed(s.num, s.fft_length)

(* fst.py 138-169 *)
FST_fst(s, sig) ==
    IF check_audio_raises(sig) THEN Rejected
    ELSE IF check_audio_length_raises(sig, s.radix2_exp) THEN Rejected
    ELSE IF ZerosRaises(s.num) THEN Rejected
    ELSE Transformed(s.num, s.fft_length)

(* pwt.py 226-257 *)
PWT_pwt(s, sig) ==
    IF check_audio_raises(sig) THEN Rejected
    ELSE IF check_audio_length_raises(sig, s.radix2_exp) THEN Rejected
    ELSE IF ZerosRaises(s.num) THEN Rejected
    ELSE Transformed(s.num, s.fft_length)

(* pwt.py 275-305 *)
PWT_pwt_det(s, sig) ==
    IF check_audio_raises(sig) THEN Rejected
    ELSE IF check_audio_length_raises(sig, s.radix2_exp) THEN Rejected
    ELSE IF ZerosRaises(s.num) THEN Rejected
    ELSE Transformed(s.num, s.fft_length)

(***************************************************************************)
(* The inputs the calls are drawn from.                                    *)
(***************************************************************************)
Radix2Exps == -1..MaxRadix2Exp
Half(radix2_exp) == IF radix2_exp < 0 THEN 0 ELSE Pow2(radix2_exp) \div 2
Indices(radix2_exp) ==
    {0, 1, 2} \cup {Half(radix2_exp) - 1, Half(radix2_exp), Half(radix2_exp) + 1}
Samplates == {0, 32000, 44100}
Factors == {0, 1, 2}
Norms == {0, 1, 2}
Nums == {-1, 0, 1, 2}
BinPerOctaves == {0, 12}
LowFres == {Omitted, Given(None), Given(Some(-1)), Given(Some(0)),
            Given(Some(327020)), Given(Some(327030))}
HighFres == {Omitted, Given(None), Given(Some(Hz(100)))}
ScaleArgs == {Omitted} \cup {Given(Some(t)) : t \in ScaleTypes}
Signals(fft_length) ==
    [ndim : {1, 2}, len : {fft_length - 1, fft_length, fft_length + 1}]
BinArrs == [ndim : {1, 2}, len : 0..MaxBins]

ST_Args ==
    UNION {[radix2_exp : {r}, min_index : Indices(r),
            max_index : {None} \cup {Some(i) : i \in Indices(r)},
            samplate : Samplates, factor : Factors, norm : Norms]
           : r \in Radix2Exps}

FST_Args ==
    UNION {[radix2_exp : {r}, min_index : Indices(r),
            max_index : {None} \cup {Some(i) : i \in Indices(r)},
            samplate : Samplates]
           : r \in Radix2Exps}

PWT_Args ==
    [num : Nums, radix2_exp : Radix2Exps, samplate : Samplates,
     low_fre : LowFres, high_fre : HighFres, bin_per_octave : BinPerOctaves,
     scale_type : ScaleArgs]

(***************************************************************************)
(* State.                                                                  *)
(***************************************************************************)
NoObject == [none |-> TRUE]

Ret(op, input, r) ==
    [op |-> op, input |-> input, raised |-> r.raised, err |-> "",
     allocated |-> FALSE, nativeCalled |-> FALSE, value |-> r.value]

TRet(op, sig, r) ==
    [op |-> op, input |-> sig, raised |-> r.raised, err |-> "",
     allocated |-> r.allocated, nativeCalled |-> r.nativeCalled,
     value |-> r.value]

InitRet(r) ==
    [op |-> "__init__", input |-> <<>>, raised |-> ~r.ok, err |-> r.err,
     allocated |-> FALSE, nativeCalled |-> FALSE, value |-> <<>>]

Init ==
    /\ pc = "start"
    /\ cls = "none"
    /\ args = NoObject
    /\ self = NoObject
    /\ is_created = FALSE
    /\ native = NoNative
    /\ ret = [op |-> "", input |-> <<>>, raised |-> FALSE, err |-> "",
              allocated |-> FALSE, nativeCalled |-> FALSE, value |-> <<>>]

(***************************************************************************)
(* ST                                                                      *)
(***************************************************************************)
NewST ==
    /\ pc = "start"
    /\ \E a \in ST_Args :
         LET r == ST_init(a)
         IN  /\ cls' = "ST"
             /\ args' = a
             /\ self' = r.self
             /\ pc' = IF r.ok THEN "ready" ELSE "raised"
             /\ is_created' = r.ok
             /\ native' = IF r.ok THEN stObj_new(r.self) ELSE native
             /\ ret' = InitRet(r)

UseBinArr ==
    /\ pc = "ready" /\ cls = "ST"
    /\ \E b \in BinArrs :
         /\ native' = IF b.ndim # 1 THEN native
                      ELSE [native EXCEPT !.bins = Some(b.len)]
         /\ ret' = Ret("use_bin_arr", b,
                       IF b.ndim # 1 THEN Raises ELSE Returns(<<>>))
    /\ UNCHANGED <<pc, cls, args, self, is_created>>

SetValue ==
    /\ pc = "ready" /\ cls = "ST"
    /\ \E f \in Factors, n \in Norms :
         /\ native' = stObj_setValue(native, f, n)
         /\ ret' = Ret("set_value", [factor |-> f, norm |-> n], Returns(<<>>))
    /\ UNCHANGED <<pc, cls, args, self, is_created>>

StGetFreBandArr ==
    /\ pc = "ready" /\ cls = "ST"
    /\ ret' = Ret("get_fre_band_arr", <<>>, ST_get_fre_band_arr(self))
    /\ UNCHANGED <<pc, cls, args, self, is_created, native>>

St ==
    /\ pc = "ready" /\ cls = "ST"
    /\ \E sig \in Signals(self.fft_length) :
         ret' = TRet("st", sig, ST_st(self, sig))
    /\ UNCHANGED <<pc, cls, args, self, is_created, native>>

StYCoords ==
    /\ pc = "ready" /\ cls = "ST"
    /\ ret' = Ret("y_coords", <<>>, ST_y_coords(self))
    /\ UNCHANGED <<pc, cls, args, self, is_created, native>>

StXCoords ==
    /\ pc = "ready" /\ cls = "ST"
    /\ ret' = Ret("x_coords", <<>>, ST_x_coords(self))
    /\ UNCHANGED <<pc, cls, args, self, is_created, native>>

(* Mutant: the native free function called whatever _is_created holds.     *)
DelST_AlwaysFree ==
    /\ pc \in {"ready", "raised"} /\ cls = "ST"
    /\ pc' = "destroyed"
    /\ native' = [native EXCEPT !.freeCalls = @ + 1]
    /\ ret' = Ret("__del__", <<>>, Returns(<<>>))
    /\ UNCHANGED <<cls, args, self, is_created>>

(* __del__, st.py 238-243: also runs for an instance whose __init__ raised *)
DelST ==
    /\ pc \in {"ready", "raised"} /\ cls = "ST"
    /\ pc' = "destroyed"
    /\ native' = IF is_created
                 THEN [native EXCEPT !.freeCalls = @ + 1] ELSE native
    /\ ret' = Ret("__del__", <<>>, Returns(<<>>))
    /\ UNCHANGED <<cls, args, self, is_created>>

(***************************************************************************)
(* FST                                                                     *)
(***************************************************************************)
NewFST ==
    /\ pc = "start"
    /\ \E a \in FST_Args :
         LET r == FST_init(a)
         IN  /\ cls' = "FST"
             /\ args' = a
             /\ self' = r.self
             /\ pc' = IF r.ok THEN "ready" ELSE "raised"
             /\ is_created' = r.ok
             /\ native' = IF r.ok THEN fstObj_new(r.self) ELSE native
             /\ ret' = InitRet(r)

FstGetFreBandArr ==
    /\ pc = "ready" /\ cls = "FST"
    /\ ret' = Ret("get_fre_band_arr", <<>>, FST_get_fre_band_arr(self))
    /\ UNCHANGED <<pc, cls, args, self, is_created, native>>

Fst ==
    /\ pc = "ready" /\ cls = "FST"
    /\ \E sig \in Signals(self.fft_length) :
         ret' = TRet("fst", sig, FST_fst(self, sig))
    /\ UNCHANGED <<pc, cls, args, self, is_created, native>>

FstYCoords ==
    /\ pc = "ready" /\ cls = "FST"
    /\ ret' = Ret("y_coords", <<>>, FST_y_coords(self))
    /\ UNCHANGED <<pc, cls, args, self, is_created, native>>

FstXCoords ==
    /\ pc = "ready" /\ cls = "FST"
    /\ ret' = Ret("x_coords", <<>>, FST_x_coords(self))
    /\ UNCHANGED <<pc, cls, args, self, is_created, native>>

DelFST ==
    /\ pc \in {"ready", "raised"} /\ cls = "FST"
    /\ pc' = "destroyed"
    /\ native' = IF is_created
                 THEN [native EXCEPT !.freeCalls = @ + 1] ELSE native
    /\ ret' = Ret("__del__", <<>>, Returns(<<>>))
    /\ UNCHANGED <<cls, args, self, is_created>>

(***************************************************************************)
(* PWT                                                                     *)
(***************************************************************************)
NewPWT ==
    /\ pc = "start"
    /\ \E a \in PWT_Args :
         LET r == PWT_init(a)
         IN  /\ cls' = "PWT"
             /\ args' = a
             /\ self' = r.self
             /\ pc' = IF r.ok THEN "ready" ELSE "raised"
             /\ is_created' = r.ok
             /\ native' = IF r.ok THEN pwtObj_new(r.self) ELSE native
             /\ ret' = InitRet(r)

PwtGetFreBandArr ==
    /\ pc = "ready" /\ cls = "PWT"
    /\ ret' = Ret("get_fre_band_arr", <<>>, PWT_get_fre_band_arr(self, native))
    /\ UNCHANGED <<pc, cls, args, self, is_created, native>>

Pwt ==
    /\ pc = "ready" /\ cls = "PWT"
    /\ \E sig \in Signals(self.fft_length) :
         ret' = TRet("pwt", sig, PWT_pwt(self, sig))
    /\ UNCHANGED <<pc, cls, args, self, is_created, native>>

EnableDet ==
    /\ pc = "ready" /\ cls = "PWT"
    /\ \E flag \in BOOLEAN : native' = [native EXCEPT !.det = flag]
    /\ ret' = Ret("enable_det", <<>>, Returns(<<>>))
    /\ UNCHANGED <<pc, cls, args, self, is_created>>

PwtDet ==
    /\ pc = "ready" /\ cls = "PWT"
    /\ \E sig \in Signals(self.fft_length) :
         ret' = TRet("pwt_det", sig, PWT_pwt_det(self, sig))
    /\ UNCHANGED <<pc, cls, args, self, is_created, native>>

PwtYCoords ==
    /\ pc = "ready" /\ cls = "PWT"
    /\ ret' = Ret("y_coords", <<>>, PWT_y_coords(self, native))
    /\ UNCHANGED <<pc, cls, args, self, is_created, native>>

PwtXCoords ==
    /\ pc = "ready" /\ cls = "PWT"
    /\ ret' = Ret("x_coords", <<>>, PWT_x_coords(self))
    /\ UNCHANGED <<pc, cls, args, self, is_created, native>>

DelPWT ==
    /\ pc \in {"ready", "raised"} /\ cls = "PWT"
    /\ pc' = "destroyed"
    /\ native' = IF is_created
                 THEN [native EXCEPT !.freeCalls = @ + 1] ELSE native
    /\ ret' = Ret("__del__", <<>>, Returns(<<>>))
    /\ UNCHANGED <<cls, args, self, is_created>>

Next ==
    \/ NewST \/ UseBinArr \/ SetValue \/ StGetFreBandArr \/ St
    \/ StYCoords \/ StXCoords \/ DelST
    \/ NewFST \/ FstGetFreBandArr \/ Fst \/ FstYCoords \/ FstXCoords \/ DelFST
    \/ NewPWT \/ PwtGetFreBandArr \/ Pwt \/ EnableDet \/ PwtDet
    \/ PwtYCoords \/ PwtXCoords \/ DelPWT

Spec == Init /\ [][Next]_vars

(***************************************************************************)
(* Properties.                                                             *)
(***************************************************************************)
AfterInit(c) == cls = c /\ ret.op = "__init__"
Constructed == pc = "ready"
Rejects == pc = "raised" /\ ret.raised /\ self = NoObject /\ ~is_created
ScaleOf(a) == Val(Param(a.scale_type, PWT_default_scale_type))

(* C1: ST with explicit integer min_index and max_index is constructed     *)
(* exactly when 1 <= min_index < max_index <= fft_length/2 - 1; every      *)
(* other combination raises and leaves no instance.                        *)
C1_ST_IndexRange ==
    (AfterInit("ST") /\ ~IsNone(args.max_index)) =>
        LET lo == args.min_index
            hi == Val(args.max_index)
            legal == /\ args.radix2_exp >= 0
                     /\ 1 <= lo /\ lo < hi
                     /\ 2 * hi <= Pow2(args.radix2_exp) - 2
        IN  /\ Constructed <=> legal
            /\ ~legal => Rejects
            /\ (legal /\ lo = hi - 1) => Constructed
            /\ lo = hi => Rejects

C1_Witness ==
    /\ AfterInit("ST") /\ ~IsNone(args.max_index) /\ Constructed
    /\ args.min_index = Val(args.max_index) - 1
    /\ 2 * Val(args.max_index) = self.fft_length - 2

(* C2: FST accepts every max_index with min_index < max_index <=           *)
(* fft_length/2, with num = max_index - min_index + 1 rows.                *)
C2_FST_AcceptsHalf ==
    (/\ AfterInit("FST") /\ ~IsNone(args.max_index)
     /\ args.radix2_exp >= 1
     /\ 1 <= args.min_index /\ args.min_index < Val(args.max_index)
     /\ 2 * Val(args.max_index) <= Pow2(args.radix2_exp)) =>
        /\ Constructed
        /\ self.num = Val(args.max_index) - args.min_index + 1

(* C3: PWT with low_fre given: for OCTAVE and LOG the low_fre check raises *)
(* exactly below 32.703 Hz, for the other scales exactly below 0; a        *)
(* low_fre that passes is the instance's low_fre.                          *)
C3_PWT_LowFreBound ==
    (/\ AfterInit("PWT")
     /\ args.low_fre.given /\ ~IsNone(args.low_fre.v)
     /\ ~(ScaleOf(args) = "OCTAVE" /\ args.bin_per_octave < 1)) =>
        LET v == Val(args.low_fre.v)
            bound == IF ScaleOf(args) \in {"OCTAVE", "LOG"} THEN 327030 ELSE 0
        IN  /\ (Rejects /\ ret.err \in {"low_fre_c1", "low_fre_neg"}) <=> v < bound
            /\ (v >= bound /\ args.radix2_exp >= 0) =>
                   (Constructed /\ self.low_fre = v)

C3_Witness ==
    /\ AfterInit("PWT") /\ Constructed
    /\ args.low_fre = Given(Some(327030))
    /\ self.scale_type = "OCTAVE"

(* C4: PWT with low_fre left out (the other arguments valid) takes         *)
(* 32.703 Hz (C1) for OCTAVE and LOG and 0.0 for the other scales, and is  *)
(* constructed.                                                            *)
C4_PWT_LowFreDefault ==
    (/\ AfterInit("PWT")
     /\ ~args.low_fre.given
     /\ args.radix2_exp >= 1 /\ args.samplate > 0 /\ args.num > 0
     /\ args.bin_per_octave >= 1) =>
        /\ Constructed
        /\ IF ScaleOf(args) \in {"OCTAVE", "LOG"}
           THEN self.low_fre >= 327030 /\ self.low_fre < 327040
           ELSE self.low_fre = 0

(* C5: PWT with high_fre left out has high_fre = samplate/2, for every     *)
(* samplate > 0.                                                           *)
C5_PWT_HighFreDefault ==
    (/\ cls = "PWT" /\ Constructed /\ ~args.high_fre.given
     /\ self.radix2_exp >= 1 /\ self.samplate > 0 /\ self.num > 0) =>
        2 * self.high_fre = self.samplate * FreUnit

(* C6: no instance in the Ready state holds radix2_exp < 1, samplate <= 0, *)
(* PWT num <= 0, PWT bin_per_octave < 1 (Octave), ST factor <= 0 or ST     *)
(* norm <= 0: the constructors raise on each of them.                      *)
C6_NoInvalidReady ==
    Constructed =>
        /\ self.radix2_exp >= 1
        /\ self.samplate > 0
        /\ cls = "PWT" =>
              /\ self.num > 0
              /\ self.scale_type = "OCTAVE" => self.bin_per_octave >= 1
        /\ cls = "ST" => (self.factor > 0 /\ self.norm > 0)

(* The frequency bands of the instance, as get_fre_band_arr() gives them.  *)
BandOf ==
    CASE cls = "ST"  -> ST_get_fre_band_arr(self)
      [] cls = "FST" -> FST_get_fre_band_arr(self)
      [] cls = "PWT" -> PWT_get_fre_band_arr(self, native)

(* C7: y_coords() is get_fre_band_arr() with one duplicate of its first    *)
(* entry prepended, for every constructed instance of ST, FST and PWT.     *)
C7_YCoordsDuplicatesFirst ==
    (Constructed /\ ret.op = "y_coords") =>
        /\ ~ret.raised
        /\ ~BandOf.raised
        /\ Len(ret.value) >= 2
        /\ ret.value[1] = ret.value[2]
        /\ ret.value[1] = BandOf.value[1]
        /\ Tail(ret.value) = BandOf.value

(* C7 restricted to num >= 1: holds of every such instance.                *)
C7_WhereNumPositive ==
    (Constructed /\ ret.op = "y_coords" /\ (cls = "PWT" => self.num >= 1)) =>
        /\ ~ret.raised
        /\ Len(ret.value) >= 2
        /\ ret.value[1] = ret.value[2]
        /\ ret.value[1] = BandOf.value[1]
        /\ Tail(ret.value) = BandOf.value

(* C8: x_coords() has fft_length + 1 entries, the first 0 and the last     *)
(* fft_length/samplate, and y_coords() has num + 1 entries, for every      *)
(* constructed instance.                                                   *)
C8_CoordinateContract ==
    /\ (Constructed /\ ret.op = "x_coords") =>
          /\ ~ret.raised
          /\ Len(ret.value) = self.fft_length + 1
          /\ ret.value[1][1] = 0
          /\ ret.value[Len(ret.value)][1] * self.samplate
                = self.fft_length * ret.value[Len(ret.value)][2]
    /\ (Constructed /\ ret.op = "y_coords") =>
          /\ ~ret.raised
          /\ Len(ret.value) = self.num + 1

(* C8 restricted to samplate > 0 and num >= 0: holds.                      *)
C8_WhereValid ==
    /\ (Constructed /\ ret.op = "x_coords" /\ self.samplate > 0) =>
          /\ ~ret.raised
          /\ Len(ret.value) = self.fft_length + 1
          /\ ret.value[1][1] = 0
          /\ ret.value[Len(ret.value)][1] * self.samplate
                = self.fft_length * ret.value[Len(ret.value)][2]
    /\ (Constructed /\ ret.op = "y_coords" /\ self.num >= 0) =>
          /\ ~ret.raised
          /\ Len(ret.value) = self.num + 1

(* The contract of C9 for a sequence of frequency bands.                   *)
BandContract(band) ==
    /\ Len(band) = self.num
    /\ self.num = self.max_index - self.min_index + 1
    /\ \A i \in 1..Len(band) :
          band[i][1] * self.fft_length
             = (self.min_index + i - 1) * self.samplate * band[i][2]
    /\ \A i \in 1..(Len(band) - 1) : FracLt(band[i], band[i + 1])
    /\ \A i \in 1..Len(band) :
          /\ FracLe(<<self.min_index * self.samplate, self.fft_length>>, band[i])
          /\ FracLe(band[i], <<self.max_index * self.samplate, self.fft_length>>)

(* C9: for a constructed ST or FST, get_fre_band_arr() is strictly         *)
(* increasing, has num = max_index - min_index + 1 entries, and its i-th   *)
(* entry is (min_index + i) * samplate / fft_length.                       *)
C9_BandsIncreasing ==
    (Constructed /\ cls \in {"ST", "FST"} /\ ret.op = "get_fre_band_arr") =>
        (~ret.raised /\ BandContract(ret.value))

(* C9 restricted to samplate > 0: holds.                                   *)
C9_WhereSamplatePositive ==
    (/\ Constructed /\ cls \in {"ST", "FST"} /\ ret.op = "get_fre_band_arr"
     /\ self.samplate > 0) =>
        (~ret.raised /\ BandContract(ret.value))

ST_ValidValues ==
    /\ cls = "ST"
    /\ self.samplate > 0 /\ self.factor > 0 /\ self.norm > 0
    /\ Val(native.factor) > 0 /\ Val(native.norm) > 0
    /\ (IsNone(native.bins) \/ Val(native.bins) >= 1)

(* C11: after any use_bin_arr and set_value calls on an ST instance,       *)
(* st(signal) returns planes of shape (rows, fft_length), rows being the   *)
(* rows of the window bank installed; after use_bin_arr(bins) the rows     *)
(* allocated and the length of get_fre_band_arr() equal len(bins).         *)
C11_OutputRowsMatchBank ==
    /\ (Constructed /\ ST_ValidValues /\ ret.op = "st" /\ ~ret.raised) =>
            ret.value = <<stObj_bankRows(native, self), self.fft_length>>
    /\ (/\ Constructed /\ ST_ValidValues /\ ret.op = "get_fre_band_arr"
        /\ ~IsNone(native.bins)) =>
            (~ret.raised /\ Len(ret.value) = Val(native.bins))

(* C11 restricted to instances on which use_bin_arr was not called, or was *)
(* called with exactly num bins: holds.                                    *)
C11_WhereBankUnchanged ==
    (/\ Constructed /\ cls = "ST" /\ ret.op \in {"st", "get_fre_band_arr"}
     /\ ~ret.raised
     /\ (IsNone(native.bins) \/ Val(native.bins) = self.num)) =>
        IF ret.op = "st"
        THEN ret.value = <<stObj_bankRows(native, self), self.fft_length>>
        ELSE Len(ret.value) = stObj_bankRows(native, self)

(* The checks of the constructors, read off the instance's attributes.     *)
ValidationPassed ==
    /\ self # NoObject
    /\ self.radix2_exp >= 0
    /\ cls \in {"ST", "FST"} =>
          /\ self.min_index >= 1
          /\ 2 * self.max_index < self.fft_length
          /\ self.min_index < self.max_index
    /\ cls = "PWT" =>
          /\ self.low_fre >= 0
          /\ self.scale_type \in {"OCTAVE", "LOG"} => self.low_fre >= 327030
          /\ self.scale_type = "OCTAVE" => self.bin_per_octave >= 1

(* C12: the native constructor is invoked only once all the checks of      *)
(* __init__ have passed; the native free function is invoked at            *)
(* destruction, and only if the native constructor completed               *)
(* (_is_created); a construction that raises invokes neither.              *)
C12_NativeLifecycle ==
    /\ pc = "start" => (native.newCalls = 0 /\ native.freeCalls = 0)
    /\ pc = "raised" =>
          (~is_created /\ native.newCalls = 0 /\ native.freeCalls = 0)
    /\ pc = "ready" =>
          /\ is_created /\ native.newCalls = 1 /\ native.freeCalls = 0
          /\ ValidationPassed
    /\ pc = "destroyed" =>
          IF is_created
          THEN native.newCalls = 1 /\ native.freeCalls = 1 /\ ValidationPassed
          ELSE native.newCalls = 0 /\ native.freeCalls = 0 /\ self = NoObject
    /\ native.newCalls > 0 => (is_created /\ ValidationPassed)
    /\ native.freeCalls > 0 => (pc = "destroyed" /\ native.newCalls = 1)

C12_Witness ==
    /\ cls = "ST" /\ pc = "destroyed" /\ is_created
    /\ native.newCalls = 1 /\ native.freeCalls = 1

(* The instance ST(...) built afresh from the arguments of this one, with  *)
(* factor and norm those of the last set_value call.                       *)
FreshWithValue == ST_init([args EXCEPT !.factor = ret.input.factor,
                                       !.norm = ret.input.norm])

AfterSetValue ==
    /\ Constructed /\ cls = "ST" /\ ret.op = "set_value"
    /\ IsNone(native.bins)
    /\ self.samplate > 0 /\ self.factor > 0 /\ self.norm > 0
    /\ ret.input.factor > 0 /\ ret.input.norm > 0

(* C13: set_value(factor=f2, norm=n2) leaves an ST instance in the state   *)
(* of a fresh ST built with the same radix2_exp, min_index, max_index and  *)
(* samplate and factor=f2, norm=n2: the parameters the next st() call uses *)
(* and the recorded factor and norm are those of the fresh instance.       *)
C13_SetValueMatchesFresh ==
    AfterSetValue =>
        /\ FreshWithValue.ok
        /\ native = stObj_new(FreshWithValue.self)
        /\ self = FreshWithValue.self

(* C13 without the recorded attributes: the native parameters are those of *)
(* the fresh instance, and every attribute but factor and norm agrees;     *)
(* factor and norm stay as the constructor recorded them.  Holds.          *)
C13_NativeMatchesFresh ==
    AfterSetValue =>
        /\ FreshWithValue.ok
        /\ native = stObj_new(FreshWithValue.self)
        /\ [self EXCEPT !.factor = ret.input.factor, !.norm = ret.input.norm]
              = FreshWithValue.self
        /\ self.factor = args.factor /\ self.norm = args.norm

====
